---- MODULE Spec2Model ----
(***************************************************************************)
(* The multi-root client manager of vscode-standard-ruby                   *)
(* (src/src/clientManager.ts) together with the client factory and the     *)
(* diagnostics middleware of src/src/extension.ts.                         *)
(*                                                                         *)
(* JavaScript runs one task at a time; a call of an async function runs    *)
(* synchronously up to its first `await`, and every `await` is a point     *)
(* where any other task may run.  Each action below is one such            *)
(* synchronous segment of one call.  The outcome of an awaited             *)
(* collaborator (resolve, reject, the value) is chosen by the environment  *)
(* in the step that resumes the caller: one action per outcome.            *)
(***************************************************************************)
EXTENDS Integers, Sequences, FiniteSets, TLC

\* ------------------------------------------------------------------ bounds
\* Number of top-level calls of the manager's API that one behaviour makes.
MaxTasks == 3

Tasks == 1..MaxTasks

\* Number of top-level calls in a behaviour of Spec, where a call may be any
\* operation of the manager.
MaxCalls == 2

\* workspace.workspaceFolders, in order; a folder is named by its key
\* (getFolderKey: folder.uri.toString()).
WorkspaceFolders == <<"A", "B">>

Folders == {WorkspaceFolders[i] : i \in 1..Len(WorkspaceFolders)}

\* workspace.textDocuments, in order: the folder that owns the document
\* ("none": workspace.getWorkspaceFolder returns undefined) and its languageId.
TextDocuments ==
  << [uri |-> "a.rb",  folder |-> "A",    languageId |-> "ruby"],
     [uri |-> "a.txt", folder |-> "A",    languageId |-> "plaintext"],
     [uri |-> "b.rb",  folder |-> "B",    languageId |-> "ruby"],
     [uri |-> "o.rb",  folder |-> "none", languageId |-> "ruby"] >>

Uris == {TextDocuments[i].uri : i \in 1..Len(TextDocuments)}

\* The diagnostic sets a server reports ("none": no entry in a cache).
DiagnosticSets == {"d1", "d2"}

\* extension.ts supportedLanguage
supportedLanguage(languageId) == languageId = "ruby" \/ languageId = "gemfile"

VARIABLES
  task,              \* the calls in progress: position, arguments, locals, and
                     \* what the innermost call in progress has invoked so far
  returned,          \* the call that returned in the last step, with what it
                     \* invoked (NoReturn when the last step returned from none);
                     \* for handleDiagnostics, the document and the set reported
  clients,           \* ClientManager.clients: key -> client (0: no entry)
  regOrder,          \* the entry list of the clients Map (clients in insertion
                     \* order, removed entries kept as holes), for its iterators
  clientObjs,        \* every LanguageClient created so far
  diagnosticCaches,  \* ClientManager.diagnosticCaches: key -> cache (0: no entry)
  caches,            \* every cache Map created so far: uri -> diagnostic set
  watchers,          \* ClientManager.watchers: key -> batch (0: no entry)
  batches,           \* every watcher batch created so far: times disposed
  pendingStarts      \* ClientManager.pendingStarts

vars == <<task, returned, clients, regOrder, clientObjs, diagnosticCaches, caches,
          watchers, batches, pendingStarts>>

mgr == <<clients, regOrder, clientObjs, diagnosticCaches, caches,
         watchers, batches, pendingStarts>>

\* ------------------------------------------------------------ the call frame
\* The WorkspaceFoldersChangeEvent a folder-change handler works on.
NoEvent == [removed |-> <<>>, added |-> <<>>]

IdleTask ==
  [op |-> "none", pc |-> "idle", folder |-> "none", client |-> 0,
   idx |-> 0, it |-> 0, doc |-> 0, trace |-> <<>>, event |-> NoEvent]

DoneTask == [IdleTask EXCEPT !.pc = "done"]

NoReturn ==
  [op |-> "none", folder |-> "none", ret |-> "none", trace |-> <<>>,
   outer |-> "none", outerRet |-> "none"]

\* What a call invokes on its collaborators, in order.
Ev(kind, what, folder) == [kind |-> kind, what |-> what, folder |-> folder]

Emit(r, e) == [r EXCEPT !.trace = Append(@, e)]

Count(tr, kind) == Cardinality({i \in 1..Len(tr) : tr[i].kind = kind})

\* A call goes on: task t is now at r, and no call returned in this step.
Goes(t, r) ==
  /\ task' = [task EXCEPT ![t] = r]
  /\ returned' = NoReturn

\* A top-level call returns (ret "ok") or rejects (ret: the collaborator
\* whose rejection leaves the call).  The event a handler of the listener
\* was called with stays on record.
Returns(t, r, op, ret) ==
  /\ task' = [task EXCEPT ![t] = [DoneTask EXCEPT !.event = r.event]]
  /\ returned' = [op |-> op, folder |-> r.folder, ret |-> ret, trace |-> r.trace,
                  outer |-> r.op, outerRet |-> ret]

\* A new call may be made on the next unused frame.
CanCall(t) == task[t].pc = "idle" /\ (IF t = 1 THEN TRUE ELSE task[t - 1].pc # "idle")

\* ------------------------------------------------------------ the Map objects
\* Map.prototype.has on this.clients
ClientsHas(key) == clients[key] # 0

\* Map.prototype.set on this.clients: a new key appends an entry, an existing
\* key keeps its place in the entry list.
ClientsSetOrder(key, c) ==
  IF clients[key] = 0 THEN Append(regOrder, c)
  ELSE [i \in 1..Len(regOrder) |-> IF regOrder[i] = clients[key] THEN c ELSE regOrder[i]]

\* An entry of the list is live while the map still holds it.
LiveEntry(i) == clients[clientObjs[regOrder[i]].folder] = regOrder[i]

\* The Map iterator of stopAll: the next live entry after position pos
\* (0: the iterator is exhausted).
NextEntry(pos) ==
  LET later == {i \in (pos + 1)..Len(regOrder) : LiveEntry(i)}
  IN IF later = {} THEN 0 ELSE CHOOSE i \in later : \A j \in later : i <= j

\* Every watcher of the batches bs is disposed twice.
DisposeBatchesTwice(bs) ==
  [b \in 1..Len(batches) |-> IF b \in bs THEN batches[b] + 2 ELSE batches[b]]

\* Every watcher of the batches bs is disposed once more.
DisposeBatches(bs) ==
  [b \in 1..Len(batches) |-> IF b \in bs THEN batches[b] + 1 ELSE batches[b]]

\* cleanupWatchers(key): the watchers of the key's batch are disposed ...
CleanupWatchersDisposed(key) ==
  IF watchers[key] = 0 THEN batches ELSE DisposeBatches({watchers[key]})

\* The batch left in the map.
CleanupWatchersKept(key) == watchers

\* ... and the batch is deleted from the map.
CleanupWatchersMap(key) == [watchers EXCEPT ![key] = 0]

\* The batches left in the map.
CleanupAllKept == watchers

\* The watchers of the batches not disposed.
CleanupAllNotDisposed == batches

\* cleanupAllWatchers
CleanupAllDisposed == DisposeBatches({watchers[k] : k \in Folders} \ {0})

CleanupAllMap == [k \in Folders |-> 0]

EmptyCache == [u \in Uris |-> "none"]

\* ------------------------------------------------------------------- Init
Init ==
  /\ task = [t \in Tasks |-> IdleTask]
  /\ returned = NoReturn
  /\ clients = [k \in Folders |-> 0]
  /\ regOrder = <<>>
  /\ clientObjs = <<>>
  /\ diagnosticCaches = [k \in Folders |-> 0]
  /\ caches = <<>>
  /\ watchers = [k \in Folders |-> 0]
  /\ batches = <<>>
  /\ pendingStarts = {}

\* ------------------------------------------------------------ startForFolder
\* startForFolder returns or rejects.  Called by startAll, a normal return
\* resumes the loop's `await`; a rejection is caught by no caller in the
\* manager, so it ends startAll and restartAll too.
StartForFolderReturns(t, r, ret) ==
  IF r.op = "folderChange" /\ ret = "ok"
  THEN /\ task' = [task EXCEPT ![t] =
            [r EXCEPT !.pc = "folderChangeAwait", !.folder = "none", !.client = 0,
                      !.doc = 0, !.trace = <<>>]]
       /\ returned' = [op |-> "startForFolder", folder |-> r.folder, ret |-> ret,
                       trace |-> r.trace, outer |-> r.op, outerRet |-> "none"]
  ELSE IF r.op \in {"startAll", "restartAll"} /\ ret = "ok"
  THEN /\ task' = [task EXCEPT ![t] =
            [r EXCEPT !.pc = "startAllAwait", !.folder = "none", !.client = 0,
                      !.doc = 0, !.trace = <<>>]]
       /\ returned' = [op |-> "startForFolder", folder |-> r.folder, ret |-> ret,
                       trace |-> r.trace, outer |-> r.op, outerRet |-> "none"]
  ELSE Returns(t, r, "startForFolder", ret)

\* The registered-client guard left out.
AlreadyRunningIgnored(key) == FALSE

\* clientManager.ts:118  if (this.clients.has(key)) return
AlreadyRunning(key) == ClientsHas(key)

\* The pending guard left out.
StartPendingIgnored(key) == FALSE

\* One marker for the whole manager: a pending start of any folder blocks.
StartPendingAny(key) == pendingStarts # {}

\* clientManager.ts:123  if (this.pendingStarts.has(key)) return
StartPending(key) == key \in pendingStarts

\* The marker not set.
PendingNotAdded(key) == pendingStarts

\* clientManager.ts:124  this.pendingStarts.add(key)
PendingAdded(key) == pendingStarts \cup {key}

\* The marker left in place.
PendingKept(key) == pendingStarts

\* clientManager.ts:146  finally { this.pendingStarts.delete(key) }
PendingCleared(key) == pendingStarts \ {key}

\* clientManager.ts:115-127: the guards, the pending marker, and the call of
\* shouldEnableForFolder, up to the first await.
StartForFolder(t, r, key) ==
  IF AlreadyRunning(key) \/ StartPending(key)
  THEN /\ StartForFolderReturns(t, [r EXCEPT !.folder = key, !.trace = <<>>], "ok")
       /\ UNCHANGED mgr
  ELSE /\ pendingStarts' = PendingAdded(key)
       /\ Goes(t, [r EXCEPT !.pc = "shouldEnable", !.folder = key,
                            !.trace = <<Ev("shouldEnableForFolder", "call", key)>>])
       /\ UNCHANGED <<clients, regOrder, clientObjs, diagnosticCaches, caches,
                      watchers, batches>>

\* clientManager.ts:145-147: the finally block, then the call settles.
Finally(t, r, ret) ==
  /\ pendingStarts' = PendingCleared(r.folder)
  /\ StartForFolderReturns(t, r, ret)

\* clientManager.ts:143: the log line of a failure, with String(error); an
\* error is named by the collaborator that raised it.
FailedLog(error) ==
  CASE error = "createClient" -> "failed: createClient"
    [] error = "start" -> "failed: start"
    [] error = "sendNotification" -> "failed: sendNotification"
    [] OTHER -> "failed: onStatusUpdate"

\* The registration of the failed client left in the map.
CatchClientsKept(key) == clients

\* clientManager.ts:141  this.clients.delete(key)
CatchClients(key) == [clients EXCEPT ![key] = 0]

\* clientManager.ts:139-144: the catch block up to `await this.options.onError`.
\* The log line carries the folder's name and String(error); the message given
\* to onError carries the folder's name.
Catch(t, r, error) ==
  /\ clients' = CatchClients(r.folder)
  /\ batches' = CleanupWatchersDisposed(r.folder)
  /\ watchers' = CleanupWatchersMap(r.folder)
  /\ Goes(t, [Emit(Emit(r, Ev("log", FailedLog(error), r.folder)),
                   Ev("onError", r.folder, r.folder)) EXCEPT !.pc = "onError"])
  /\ UNCHANGED <<regOrder, pendingStarts>>

\* A top-level call of startForFolder(key).
CallStartForFolder(t) ==
  /\ CanCall(t)
  /\ \E key \in Folders :
       StartForFolder(t, [task[t] EXCEPT !.op = "startForFolder"], key)

\* clientManager.ts:127, 132: shouldEnableForFolder resolved with true;
\* createClient is called and awaited.
ShouldEnableTrue(t) ==
  /\ task[t].pc = "shouldEnable"
  /\ Goes(t, [Emit(task[t], Ev("createClient", "call", task[t].folder))
                EXCEPT !.pc = "createClient"])
  /\ UNCHANGED mgr

\* clientManager.ts:127-130: shouldEnableForFolder resolved with false.
ShouldEnableFalse(t) ==
  /\ task[t].pc = "shouldEnable"
  /\ Finally(t, Emit(task[t], Ev("log", "skipping", task[t].folder)), "ok")
  /\ UNCHANGED <<clients, regOrder, clientObjs, diagnosticCaches, caches,
                 watchers, batches>>

\* new LanguageClient(...), extension.ts:327-331: the cache is the one its
\* handleDiagnostics middleware writes to.
NewClient(key, cache) ==
  [folder |-> key, cache |-> cache, startCalls |-> 0, start |-> "none",
   stopCalls |-> 0, stop |-> "none"]

\* A new Map returned by every call.
CacheForFolderNew(key) == Len(caches) + 1

\* getDiagnosticCacheForFolder (clientManager.ts:91-99): the cache the call
\* returns ...
CacheForFolder(key) ==
  IF diagnosticCaches[key] = 0 THEN Len(caches) + 1 ELSE diagnosticCaches[key]

\* ... and the cache objects after the call.
CachesAfterGet(key) ==
  IF diagnosticCaches[key] = 0 THEN Append(caches, EmptyCache) ELSE caches

\* extension.ts:323-335 createLanguageClient settles with a client:
\* buildExecutable returned an executable, buildLanguageClientOptions
\* (extension.ts:278-321) registers a new watcher batch (registerWatchers,
\* clientManager.ts:107-109) and gets or creates the folder's cache.
CreateClientReturnsClient(t) ==
  /\ task[t].pc = "createClient"
  /\ LET key == task[t].folder
     IN /\ batches' = Append(batches, 0)
        /\ watchers' = [watchers EXCEPT ![key] = Len(batches) + 1]
        /\ caches' = CachesAfterGet(key)
        /\ diagnosticCaches' = [diagnosticCaches EXCEPT ![key] = CacheForFolder(key)]
        /\ clientObjs' = Append(clientObjs, NewClient(key, CacheForFolder(key)))
        /\ Goes(t, [Emit(task[t], Ev("log", "starting", key))
                      EXCEPT !.pc = "createReturned", !.client = Len(clientObjs) + 1])
        /\ UNCHANGED <<clients, regOrder, pendingStarts>>

\* buildExecutable returned nothing: createClient resolves with null
\* (clientManager.ts:133 skips the block, then the finally).
CreateClientReturnsNull(t) ==
  /\ task[t].pc = "createClient"
  /\ Finally(t, task[t], "ok")
  /\ UNCHANGED <<clients, regOrder, clientObjs, diagnosticCaches, caches,
                 watchers, batches>>

\* createClient rejects: the catch block.
CreateClientThrows(t) ==
  /\ task[t].pc = "createClient"
  /\ Catch(t, task[t], "createClient")
  /\ UNCHANGED <<clientObjs, diagnosticCaches, caches>>

\* The client is started but never put into the map.
RegisterClientSkipped(key, c) == clients

\* clientManager.ts:134  this.clients.set(key, client)
RegisterClient(key, c) == [clients EXCEPT ![key] = c]

\* clientManager.ts:134-135: the client is registered; client.start() is
\* called and awaited.
RegisterAndStart(t) ==
  /\ task[t].pc = "createReturned"
  /\ LET key == task[t].folder
         c == task[t].client
     IN /\ clients' = RegisterClient(key, c)
        /\ regOrder' = ClientsSetOrder(key, c)
        /\ clientObjs' = [clientObjs EXCEPT ![c].startCalls = @ + 1, ![c].start = "pending"]
        /\ Goes(t, [task[t] EXCEPT !.pc = "clientStart"])
        /\ UNCHANGED <<diagnosticCaches, caches, watchers, batches, pendingStarts>>

\* The filter without the test of the document's folder.
SyncMatchesAnyFolder(key, i) ==
  /\ supportedLanguage(TextDocuments[i].languageId)
  /\ TextDocuments[i].folder # "none"

\* clientManager.ts:258-260: the filter of syncOpenDocuments.
SyncMatches(key, i) ==
  /\ supportedLanguage(TextDocuments[i].languageId)
  /\ TextDocuments[i].folder # "none"
  /\ TextDocuments[i].folder = key

\* The next open document after position `from` that is sent to the client
\* of key (0: none is left).
NextSyncDoc(key, from) ==
  LET later == {i \in (from + 1)..Len(TextDocuments) : SyncMatches(key, i)}
  IN IF later = {} THEN 0 ELSE CHOOSE i \in later : \A j \in later : i <= j

\* The loop of syncOpenDocuments (clientManager.ts:255-267) from position
\* `from`: send the next open notification and await it, or leave the loop.
SyncFrom(r, from) ==
  LET i == NextSyncDoc(r.folder, from)
  IN IF i = 0 THEN [r EXCEPT !.pc = "afterSync", !.doc = 0]
     ELSE [Emit(r, Ev("sendNotification", TextDocuments[i].uri, r.folder))
             EXCEPT !.pc = "syncSend", !.doc = i]

\* The cache of the folder left as it is.
AfterStartKeepsCache(key) == diagnosticCaches

\* afterStart, clientManager.ts:242: the folder's cache is replaced by a new Map.
AfterStartCaches(key) == [diagnosticCaches EXCEPT ![key] = Len(caches) + 1]

\* clientManager.ts:135-136, 241-243: client.start() resolved; afterStart
\* replaces the cache and syncOpenDocuments runs to its first await.
ClientStartResolves(t) ==
  /\ task[t].pc = "clientStart"
  /\ clientObjs' = [clientObjs EXCEPT ![task[t].client].start = "ok"]
  /\ caches' = Append(caches, EmptyCache)
  /\ diagnosticCaches' = AfterStartCaches(task[t].folder)
  /\ Goes(t, SyncFrom(task[t], 0))
  /\ UNCHANGED <<clients, regOrder, watchers, batches, pendingStarts>>

\* client.start() rejected: the catch block.
ClientStartRejects(t) ==
  /\ task[t].pc = "clientStart"
  /\ clientObjs' = [clientObjs EXCEPT ![task[t].client].start = "failed"]
  /\ Catch(t, task[t], "start")
  /\ UNCHANGED <<diagnosticCaches, caches>>

\* clientManager.ts:262-265: an awaited sendNotification resolved.
SyncSendResolves(t) ==
  /\ task[t].pc = "syncSend"
  /\ Goes(t, SyncFrom(task[t], task[t].doc))
  /\ UNCHANGED mgr

\* An awaited sendNotification rejected: afterStart rejects, the catch block.
SyncSendRejects(t) ==
  /\ task[t].pc = "syncSend"
  /\ Catch(t, task[t], "sendNotification")
  /\ UNCHANGED <<clientObjs, diagnosticCaches, caches>>

\* clientManager.ts:244, 137, 146: onStatusUpdate() returned, the log line,
\* the finally block.
AfterStartCompletes(t) ==
  /\ task[t].pc = "afterSync"
  /\ Finally(t, Emit(Emit(task[t], Ev("onStatusUpdate", "call", task[t].folder)),
                     Ev("log", "started", task[t].folder)), "ok")
  /\ UNCHANGED <<clients, regOrder, clientObjs, diagnosticCaches, caches,
                 watchers, batches>>

\* onStatusUpdate() threw: afterStart rejects, the catch block.
StatusUpdateThrows(t) ==
  /\ task[t].pc = "afterSync"
  /\ Catch(t, Emit(task[t], Ev("onStatusUpdate", "call", task[t].folder)), "onStatusUpdate")
  /\ UNCHANGED <<clientObjs, diagnosticCaches, caches>>

\* clientManager.ts:144-147: onError resolved; the finally block.
OnErrorResolves(t) ==
  /\ task[t].pc = "onError"
  /\ Finally(t, task[t], "ok")
  /\ UNCHANGED <<clients, regOrder, clientObjs, diagnosticCaches, caches,
                 watchers, batches>>

\* onError rejected: the finally block, and the rejection leaves startForFolder.
OnErrorRejects(t) ==
  /\ task[t].pc = "onError"
  /\ Finally(t, task[t], "onError")
  /\ UNCHANGED <<clients, regOrder, clientObjs, diagnosticCaches, caches,
                 watchers, batches>>

\* -------------------------------------------------------------- stopForFolder
\* clientManager.ts:160  this.clients.delete(key)
StopRemovesClient(key) == [clients EXCEPT ![key] = 0]

\* The cache left in the map.
StopKeepsCache(key) == diagnosticCaches

\* clientManager.ts:161  this.diagnosticCaches.delete(key)
StopRemovesCache(key) == [diagnosticCaches EXCEPT ![key] = 0]

\* A stop that cleans the folder's watchers although no client is registered.
StopNoClientCleans(t, r) ==
  /\ Returns(t, r, "stopForFolder", "ok")
  /\ batches' = CleanupWatchersDisposed(r.folder)
  /\ watchers' = CleanupWatchersMap(r.folder)
  /\ UNCHANGED <<clients, regOrder, clientObjs, diagnosticCaches, caches, pendingStarts>>

\* stopForFolder returns or rejects.  Called by the folder-change handler, a
\* normal return resumes the handler's `await`; a rejection is caught by no
\* one, so it ends the handler too.
StopForFolderReturns(t, r, ret) ==
  IF r.op = "folderChange" /\ ret = "ok"
  THEN /\ task' = [task EXCEPT ![t] =
            [r EXCEPT !.pc = "folderChangeAwait", !.folder = "none", !.client = 0,
                      !.trace = <<>>]]
       /\ returned' = [op |-> "stopForFolder", folder |-> r.folder, ret |-> ret,
                       trace |-> r.trace, outer |-> r.op, outerRet |-> "none"]
  ELSE Returns(t, r, "stopForFolder", ret)

\* clientManager.ts:156  if (client == null) return
StopNoClient(t, r) ==
  /\ StopForFolderReturns(t, r, "ok")
  /\ UNCHANGED mgr

\* clientManager.ts:153-159: stopForFolder(key) up to `await client.stop()`.
StopForFolder(t, r0, key) ==
  LET r == [r0 EXCEPT !.folder = key, !.trace = <<>>]
      c == clients[key]
  IN IF c = 0
     THEN StopNoClient(t, r)
     ELSE /\ clientObjs' = [clientObjs EXCEPT ![c].stopCalls = @ + 1, ![c].stop = "pending"]
          /\ Goes(t, [Emit(Emit(r, Ev("log", "stopping", key)), Ev("stop", c, key))
                        EXCEPT !.pc = "clientStop", !.client = c])
          /\ UNCHANGED <<clients, regOrder, diagnosticCaches, caches,
                         watchers, batches, pendingStarts>>

\* A top-level call of stopForFolder(key).
CallStopForFolder(t) ==
  /\ CanCall(t)
  /\ \E key \in Folders :
       StopForFolder(t, [task[t] EXCEPT !.op = "stopForFolder"], key)

\* clientManager.ts:159-162: client.stop() resolved; the client, the cache and
\* the watcher batch of the key are removed in this one step.
ClientStopResolves(t) ==
  /\ task[t].pc = "clientStop"
  /\ LET key == task[t].folder
     IN /\ clientObjs' = [clientObjs EXCEPT ![task[t].client].stop = "ok"]
        /\ clients' = StopRemovesClient(key)
        /\ diagnosticCaches' = StopRemovesCache(key)
        /\ batches' = CleanupWatchersDisposed(key)
        /\ watchers' = CleanupWatchersMap(key)
        /\ StopForFolderReturns(t, task[t], "ok")
        /\ UNCHANGED <<regOrder, caches, pendingStarts>>

\* client.stop() rejected: stopForFolder rejects with its maps untouched.
ClientStopRejects(t) ==
  /\ task[t].pc = "clientStop"
  /\ clientObjs' = [clientObjs EXCEPT ![task[t].client].stop = "failed"]
  /\ StopForFolderReturns(t, task[t], "stop")
  /\ UNCHANGED <<clients, regOrder, diagnosticCaches, caches, watchers, batches,
                 pendingStarts>>

\* -------------------------------------------------------------------- stopAll
\* stopAll returns: to restartAll's `await this.stopAll()`, or to the environment.
StopAllReturns(t, r) ==
  IF r.op = "restartAll"
  THEN /\ task' = [task EXCEPT ![t] =
            [r EXCEPT !.pc = "restartAwait", !.client = 0, !.it = 0, !.trace = <<>>]]
       /\ returned' = [op |-> "stopAll", folder |-> "none", ret |-> "ok",
                       trace |-> r.trace, outer |-> r.op, outerRet |-> "none"]
  ELSE Returns(t, r, "stopAll", "ok")

\* clientManager.ts:179-184: the loop over this.clients.values() from iterator
\* position pos, with the client objects co: stop() is called on the next
\* live entry and awaited; when the iterator is exhausted the three maps are
\* cleared and every watcher batch is disposed.
StopAllFrom(t, r, pos, co) ==
  IF NextEntry(pos) = 0
  THEN /\ clients' = [k \in Folders |-> 0]
       /\ diagnosticCaches' = [k \in Folders |-> 0]
       /\ batches' = CleanupAllDisposed
       /\ watchers' = CleanupAllMap
       /\ clientObjs' = co
       /\ StopAllReturns(t, r)
       /\ UNCHANGED <<regOrder, caches, pendingStarts>>
  ELSE /\ clientObjs' = [co EXCEPT ![regOrder[NextEntry(pos)]].stopCalls = @ + 1,
                                   ![regOrder[NextEntry(pos)]].stop = "pending"]
       /\ Goes(t, [Emit(r, Ev("stop", regOrder[NextEntry(pos)],
                               clientObjs[regOrder[NextEntry(pos)]].folder))
                     EXCEPT !.pc = "stopAllStop", !.it = NextEntry(pos),
                            !.client = regOrder[NextEntry(pos)]])
       /\ UNCHANGED <<clients, regOrder, diagnosticCaches, caches, watchers,
                      batches, pendingStarts>>

\* clientManager.ts:177-180: a top-level call of stopAll().
CallStopAll(t) ==
  /\ CanCall(t)
  /\ StopAllFrom(t, Emit([task[t] EXCEPT !.op = "stopAll"], Ev("log", "stoppingAll", "none")),
                 0, clientObjs)

\* clientManager.ts:180: an awaited client.stop() of the loop resolved.
StopAllStopResolves(t) ==
  /\ task[t].pc = "stopAllStop"
  /\ StopAllFrom(t, task[t], task[t].it,
                 [clientObjs EXCEPT ![task[t].client].stop = "ok"])

\* client.stop() rejected: stopAll rejects inside its loop, nothing is cleared.
StopAllStopRejects(t) ==
  /\ task[t].pc = "stopAllStop"
  /\ clientObjs' = [clientObjs EXCEPT ![task[t].client].stop = "failed"]
  /\ Returns(t, task[t], "stopAll", "stop")
  /\ UNCHANGED <<clients, regOrder, diagnosticCaches, caches, watchers, batches,
                 pendingStarts>>

\* ------------------------------------------------------ startAll, restartAll
\* clientManager.ts:168-172: the loop of startAll at folder number i.
StartAllAt(t, r, i) ==
  IF i > Len(WorkspaceFolders)
  THEN /\ Returns(t, r, r.op, "ok")
       /\ UNCHANGED mgr
  ELSE StartForFolder(t, [r EXCEPT !.idx = i], WorkspaceFolders[i])

\* A top-level call of startAll().
CallStartAll(t) ==
  /\ CanCall(t)
  /\ StartAllAt(t, [task[t] EXCEPT !.op = "startAll"], 1)

\* The `await this.startForFolder(folder)` of the loop resumed.
StartAllNext(t) ==
  /\ task[t].pc = "startAllAwait"
  /\ StartAllAt(t, task[t], task[t].idx + 1)

\* clientManager.ts:190-192: a top-level call of restartAll(), into stopAll.
CallRestartAll(t) ==
  /\ CanCall(t)
  /\ StopAllFrom(t, Emit([task[t] EXCEPT !.op = "restartAll"],
                         Ev("log", "stoppingAll", "none")),
                 0, clientObjs)

\* clientManager.ts:192-193: `await this.stopAll()` resumed, into startAll.
RestartStartAll(t) ==
  /\ task[t].pc = "restartAwait"
  /\ StartAllAt(t, task[t], 1)

\* ------------------------------------------- createWorkspaceFolderListener
\* The most folders one event removes and adds.
MaxEventFolders == 2

\* The folder lists an event can carry: no folder twice in one list.
FolderLists ==
  {<<>>} \cup {<<k>> : k \in Folders}
         \cup {l \in Folders \X Folders : l[1] # l[2]}

\* clientManager.ts:200-207: the handler at step number i of its two loops:
\* first a stopForFolder for each removed folder, then a startForFolder for
\* each added folder, each awaited.
FolderChangeAt(t, r, i) ==
  IF i > Len(r.event.removed) + Len(r.event.added)
  THEN /\ Returns(t, r, "folderChange", "ok")
       /\ UNCHANGED mgr
  ELSE IF i <= Len(r.event.removed)
  THEN StopForFolder(t, [r EXCEPT !.idx = i], r.event.removed[i])
  ELSE StartForFolder(t, [r EXCEPT !.idx = i], r.event.added[i - Len(r.event.removed)])

\* workspace.onDidChangeWorkspaceFolders fires: the handler is called.
CallFolderChange(t) ==
  /\ CanCall(t)
  /\ \E removed \in FolderLists, added \in FolderLists :
       /\ Len(removed) + Len(added) \in 1..MaxEventFolders
       /\ FolderChangeAt(t, [task[t] EXCEPT !.op = "folderChange",
                                            !.event = [removed |-> removed, added |-> added]], 1)

\* The listener fires with an event that removes or adds one folder.
CallFolderChangeOne(t) ==
  /\ CanCall(t)
  /\ \E removed \in FolderLists, added \in FolderLists :
       /\ Len(removed) + Len(added) = 1
       /\ FolderChangeAt(t, [task[t] EXCEPT !.op = "folderChange",
                                            !.event = [removed |-> removed, added |-> added]], 1)

\* An `await` of one of the handler's loops resumed.
FolderChangeNext(t) ==
  /\ task[t].pc = "folderChangeAwait"
  /\ FolderChangeAt(t, task[t], task[t].idx + 1)

\* ------------------------------------------------------------ registerWatchers
\* clientManager.ts:107-109: a collaborator registers a new batch for a folder.
CallRegisterWatchers(t) ==
  /\ CanCall(t)
  /\ \E key \in Folders :
       /\ batches' = Append(batches, 0)
       /\ watchers' = [watchers EXCEPT ![key] = Len(batches) + 1]
       /\ Returns(t, [task[t] EXCEPT !.op = "registerWatchers", !.folder = key],
                  "registerWatchers", "ok")
       /\ UNCHANGED <<clients, regOrder, clientObjs, diagnosticCaches, caches,
                      pendingStarts>>

\* ------------------------------------------------------------ the diagnostics
\* A client is running: start() completed and stop() was not called on it.
Running(c) == clientObjs[c].start = "ok" /\ clientObjs[c].stopCalls = 0

\* workspace.getWorkspaceFolder(document.uri)
FolderOf(uri) ==
  LET i == CHOOSE j \in 1..Len(TextDocuments) : TextDocuments[j].uri = uri
  IN TextDocuments[i].folder

\* extension.ts:314-318 handleDiagnostics: the cache the middleware writes is
\* the one buildLanguageClientOptions got when the client was built
\* (extension.ts:290).
HandleDiagnosticsCache(c) == clientObjs[c].cache

\* The running client of a folder reports the diagnostic set s for a document
\* of its folder.
HandleDiagnostics ==
  \E c \in 1..Len(clientObjs), uri \in Uris, s \in DiagnosticSets :
    /\ Running(c)
    /\ clients[clientObjs[c].folder] = c
    /\ FolderOf(uri) = clientObjs[c].folder
    /\ caches' = [caches EXCEPT ![HandleDiagnosticsCache(c)][uri] = s]
    /\ returned' = [NoReturn EXCEPT !.op = "handleDiagnostics",
                                    !.folder = clientObjs[c].folder,
                                    !.ret = s,
                                    !.trace = <<Ev("handleDiagnostics", uri, clientObjs[c].folder)>>]
    /\ UNCHANGED <<task, clients, regOrder, clientObjs, diagnosticCaches,
                   watchers, batches, pendingStarts>>

\* clientManager.ts:82-86 getDiagnostics ("none": undefined)
GetDiagnostics(uri) ==
  IF FolderOf(uri) = "none" THEN "none"
  ELSE IF diagnosticCaches[FolderOf(uri)] = 0 THEN "none"
  ELSE caches[diagnosticCaches[FolderOf(uri)]][uri]

\* ------------------------------------------------ notifyDocumentOpenIfNeeded
\* The guards without the supportedLanguage test.
NotifyClientAnyLanguage(i) ==
  IF TextDocuments[i].folder = "none" THEN 0
  ELSE clients[TextDocuments[i].folder]

\* clientManager.ts:218-224: the client the call goes on with (0: the call
\* returns at one of its guards).
NotifyClient(i) ==
  IF ~supportedLanguage(TextDocuments[i].languageId) THEN 0
  ELSE IF TextDocuments[i].folder = "none" THEN 0
  ELSE clients[TextDocuments[i].folder]

\* clientManager.ts:229  cache.has(document.uri.toString()), on the cache
\* getDiagnosticCacheForFolder returns.
NotifyCacheHas(key, uri) ==
  CachesAfterGet(key)[CacheForFolder(key)][uri] # "none"

\* clientManager.ts:217-233: notifyDocumentOpenIfNeeded(document) up to
\* `await client.sendNotification`.
CallNotifyDocumentOpenIfNeeded(t) ==
  /\ CanCall(t)
  /\ \E i \in 1..Len(TextDocuments) :
       LET key == TextDocuments[i].folder
           uri == TextDocuments[i].uri
           r == [task[t] EXCEPT !.op = "notifyDocumentOpenIfNeeded", !.folder = key, !.doc = i]
           c == NotifyClient(i)
       IN IF c = 0
          THEN /\ Returns(t, r, "notifyDocumentOpenIfNeeded", "ok")
               /\ UNCHANGED mgr
          ELSE /\ caches' = CachesAfterGet(key)
               /\ diagnosticCaches' = [diagnosticCaches EXCEPT ![key] = CacheForFolder(key)]
               /\ IF NotifyCacheHas(key, uri)
                  THEN Returns(t, r, "notifyDocumentOpenIfNeeded", "ok")
                  ELSE Goes(t, [Emit(r, Ev("sendNotification", uri, clientObjs[c].folder))
                                  EXCEPT !.pc = "notifySend", !.client = c])
               /\ UNCHANGED <<clients, regOrder, clientObjs, watchers, batches, pendingStarts>>

\* clientManager.ts:230-233: the awaited sendNotification resolved.
NotifySendResolves(t) ==
  /\ task[t].pc = "notifySend"
  /\ Returns(t, task[t], "notifyDocumentOpenIfNeeded", "ok")
  /\ UNCHANGED mgr

\* The awaited sendNotification rejected: the call rejects.
NotifySendRejects(t) ==
  /\ task[t].pc = "notifySend"
  /\ Returns(t, task[t], "notifyDocumentOpenIfNeeded", "sendNotification")
  /\ UNCHANGED mgr

NotifyStep(t) ==
  \/ NotifySendResolves(t)
  \/ NotifySendRejects(t)

\* ------------------------------------------------------------ specifications
StartStep(t) ==
  \/ ShouldEnableTrue(t)
  \/ ShouldEnableFalse(t)
  \/ CreateClientReturnsClient(t)
  \/ CreateClientReturnsNull(t)
  \/ CreateClientThrows(t)
  \/ RegisterAndStart(t)
  \/ ClientStartResolves(t)
  \/ ClientStartRejects(t)
  \/ SyncSendResolves(t)
  \/ SyncSendRejects(t)
  \/ AfterStartCompletes(t)
  \/ StatusUpdateThrows(t)
  \/ OnErrorResolves(t)
  \/ OnErrorRejects(t)

StopStep(t) ==
  \/ ClientStopResolves(t)
  \/ ClientStopRejects(t)

AllStep(t) ==
  \/ StopAllStopResolves(t)
  \/ StopAllStopRejects(t)
  \/ StartAllNext(t)
  \/ RestartStartAll(t)

\* Every operation of the manager, under every interleaving and outcome.
Next ==
  \E t \in 1..MaxCalls :
    \/ CallStartForFolder(t)
    \/ CallStopForFolder(t)
    \/ CallStartAll(t)
    \/ CallStopAll(t)
    \/ CallRestartAll(t)
    \/ CallRegisterWatchers(t)
    \/ StartStep(t)
    \/ StopStep(t)
    \/ AllStep(t)

Spec == Init /\ [][Next]_vars

\* startForFolder, stopForFolder and registerWatchers only.
NextFolder ==
  \E t \in Tasks :
    \/ CallStartForFolder(t)
    \/ CallStopForFolder(t)
    \/ CallRegisterWatchers(t)
    \/ StartStep(t)
    \/ StopStep(t)

SpecFolder == Init /\ [][NextFolder]_vars

\* Folder-change events only: every start and stop is made by a handler of
\* the listener, under every interleaving and outcome.
FolderChangeStep(t) ==
  \/ CallFolderChange(t)
  \/ FolderChangeNext(t)

NextListener ==
  \E t \in 1..MaxCalls :
    \/ FolderChangeStep(t)
    \/ StartStep(t)
    \/ StopStep(t)

SpecListener == Init /\ [][NextListener]_vars

\* A sequence of events that each remove or add one folder, the handlers
\* overlapping in any way, under every outcome.
NextRemoveAdd ==
  \E t \in Tasks :
    \/ CallFolderChangeOne(t)
    \/ FolderChangeNext(t)
    \/ StartStep(t)
    \/ StopStep(t)

SpecRemoveAdd == Init /\ [][NextRemoveAdd]_vars

\* startForFolder and registerWatchers only: no stop is ever issued.
NextStart ==
  \E t \in Tasks :
    \/ CallStartForFolder(t)
    \/ CallRegisterWatchers(t)
    \/ StartStep(t)

SpecStart == Init /\ [][NextStart]_vars

\* startForFolder only, in an environment where every start succeeds: the
\* folder is eligible, the factory returns a client, start() and the
\* post-start work succeed.
NextStartOk ==
  \E t \in Tasks :
    \/ CallStartForFolder(t)
    \/ ShouldEnableTrue(t)
    \/ CreateClientReturnsClient(t)
    \/ RegisterAndStart(t)
    \/ ClientStartResolves(t)
    \/ SyncSendResolves(t)
    \/ AfterStartCompletes(t)

SpecStartOk == Init /\ [][NextStartOk]_vars

\* startForFolder and stopForFolder, and the running clients report
\* diagnostics.
NextDiag ==
  \/ \E t \in 1..MaxCalls :
       \/ CallStartForFolder(t)
       \/ CallStopForFolder(t)
       \/ StartStep(t)
       \/ StopStep(t)
  \/ HandleDiagnostics

SpecDiag == Init /\ [][NextDiag]_vars

\* notifyDocumentOpenIfNeeded with startForFolder and stopForFolder, and the
\* running clients report diagnostics.
NextNotify ==
  \/ \E t \in 1..MaxCalls :
       \/ CallStartForFolder(t)
       \/ CallStopForFolder(t)
       \/ CallNotifyDocumentOpenIfNeeded(t)
       \/ StartStep(t)
       \/ StopStep(t)
       \/ NotifyStep(t)
  \/ HandleDiagnostics

SpecNotify == Init /\ [][NextNotify]_vars

\* ==================================================================== claims
\* Helpers of the claims.
InFlight(t) == task[t].pc \notin {"idle", "done"}

NoneInFlight == \A t \in Tasks : ~InFlight(t)

ClientsOf(key) == {c \in 1..Len(clientObjs) : clientObjs[c].folder = key}

RunningClientsOf(key) == {c \in ClientsOf(key) : Running(c)}

\* Entries of the clients Map that hold a client of the key.
EntriesOf(key) ==
  {i \in 1..Len(regOrder) : clientObjs[regOrder[i]].folder = key /\ LiveEntry(i)}

\* The number of createClient calls made for the key so far, where every call
\* of createClient returns a client (SpecStartOk): the clients built, and the
\* calls still awaited.
FactoryCalls(key) ==
  Cardinality(ClientsOf(key))
    + Cardinality({t \in Tasks : task[t].pc = "createClient" /\ task[t].folder = key})

HasEvent(tr, kind) == \E i \in 1..Len(tr) : tr[i].kind = kind

HasLog(tr, what) == \E i \in 1..Len(tr) : tr[i].kind = "log" /\ tr[i].what = what

\* C1: with startForFolder calls overlapping in any way, no stop issued and
\* every start succeeding, createClient is called at most once per folder at
\* any time and exactly once by the time the calls have returned; the
\* registry then holds exactly one client for the folder, in one Map entry;
\* a call that returns while another start of its folder is still pending
\* has invoked nothing.
C1_NoDuplicateClients ==
  \A key \in Folders :
    /\ FactoryCalls(key) <= 1
    /\ Cardinality(EntriesOf(key)) <= 1
    /\ (returned.op = "startForFolder" /\ returned.folder = key /\ key \in pendingStarts)
         => returned.trace = <<>>
    /\ (returned.op = "startForFolder" /\ returned.folder = key /\ returned.trace # <<>>)
         => /\ Count(returned.trace, "createClient") = 1
            /\ FactoryCalls(key) = 1
            /\ clients[key] \in ClientsOf(key)
            /\ key \notin pendingStarts
    /\ (NoneInFlight /\ FactoryCalls(key) >= 1)
         => /\ FactoryCalls(key) = 1
            /\ clients[key] \in ClientsOf(key)
            /\ Cardinality(EntriesOf(key)) = 1

\* Three overlapping calls for folder A: the first awaits the factory, the
\* other two have returned at the pending guard.
C1_Witness ==
  /\ task[1].pc = "createClient" /\ task[1].folder = "A"
  /\ task[2] = DoneTask /\ task[3] = DoneTask
  /\ pendingStarts = {"A"} /\ Len(clientObjs) = 0
  /\ returned.op = "startForFolder" /\ returned.folder = "A" /\ returned.trace = <<>>

\* C2: at most one client created for a folder key is started and not yet
\* stopped, whatever the interleaving and the failures.
C2_NoDuplicateServers ==
  \A key \in Folders : Cardinality(RunningClientsOf(key)) <= 1

\* C3: a startForFolder that ran to its "started" log line, with no stop
\* issued meanwhile, called createClient once and start() once on the client
\* it built; when it returns that client is registered under the key, has
\* completed start() and is running, and the pending marker is cleared.
C3_StartRegistersRunningClient ==
  (returned.op = "startForFolder" /\ HasLog(returned.trace, "started"))
    => /\ Count(returned.trace, "createClient") = 1
       /\ Count(returned.trace, "shouldEnableForFolder") = 1
       /\ Count(returned.trace, "onError") = 0
       /\ clients[returned.folder] \in ClientsOf(returned.folder)
       /\ clientObjs[clients[returned.folder]].startCalls = 1
       /\ clientObjs[clients[returned.folder]].start = "ok"
       /\ Running(clients[returned.folder])
       /\ Cardinality(EntriesOf(returned.folder)) = 1
       /\ returned.folder \notin pendingStarts
       /\ returned.ret = "ok"

\* A start of folder B has just returned after its "started" line, while a
\* batch is registered for A and a start of A is in flight.
C3_Witness ==
  /\ returned.op = "startForFolder" /\ returned.folder = "B"
  /\ HasLog(returned.trace, "started")
  /\ clients["B"] # 0
  /\ \E t \in Tasks : InFlight(t) /\ task[t].folder = "A"

\* The frame of task t made a step.
Stepped(t) == task'[t] # task[t]

\* The batch registered for the key, if any, is disposed once more and no
\* other batch is touched.
BatchDisposedOnce(key) ==
  batches' = IF watchers[key] = 0 THEN batches
             ELSE [batches EXCEPT ![watchers[key]] = @ + 1]

C5_FailureDoesNotPropagate ==
  (/\ returned.op = "startForFolder"
   /\ \/ HasLog(returned.trace, FailedLog("createClient"))
      \/ HasLog(returned.trace, FailedLog("start")))
    => /\ Count(returned.trace, "onError") = 1
       /\ \A i \in 1..Len(returned.trace) :
            returned.trace[i].kind \in {"onError", "log"}
              => returned.trace[i].folder = returned.folder
       /\ \A i \in 1..Len(returned.trace) :
            returned.trace[i].kind = "onError"
              => returned.trace[i].what = returned.folder
       /\ returned.ret = "ok"

\* C6: when the running client of a folder reports a diagnostic set for a
\* document of the folder through its handleDiagnostics middleware,
\* getDiagnostics of the document returns that set immediately afterwards.
C6_ReportedDiagnosticsAreServed ==
  returned.op = "handleDiagnostics"
    => GetDiagnostics(returned.trace[1].what) = returned.ret

\* C7: stopForFolder of a folder with a registered client calls stop() once
\* on that client, in the calling step, and changes no map in that step;
\* the step that resumes it after stop() completed removes the client entry,
\* the folder's cache entry and the folder's batch, disposes that batch once,
\* calls no stop(), and returns - so the three removals are one step.
C7_StopTearsDownInOneStep ==
  [][\A t \in Tasks :
       /\ (task[t].pc = "idle" /\ task'[t].pc = "clientStop")
            => LET key == task'[t].folder
                   c == clients[key]
               IN /\ c # 0 /\ task'[t].client = c
                  /\ clientObjs' = [clientObjs EXCEPT ![c].stopCalls = @ + 1,
                                                      ![c].stop = "pending"]
                  /\ UNCHANGED <<clients, regOrder, diagnosticCaches, caches,
                                 watchers, batches, pendingStarts>>
       /\ (task[t].pc = "clientStop" /\ Stepped(t) /\ returned'.ret = "ok")
            => LET key == task[t].folder
               IN /\ returned'.op = "stopForFolder" /\ returned'.folder = key
                  /\ Count(returned'.trace, "log") = 1
                  /\ clients' = [clients EXCEPT ![key] = 0]
                  /\ diagnosticCaches' = [diagnosticCaches EXCEPT ![key] = 0]
                  /\ watchers' = [watchers EXCEPT ![key] = 0]
                  /\ BatchDisposedOnce(key)
                  /\ \A c \in 1..Len(clientObjs) :
                       clientObjs'[c].stopCalls = clientObjs[c].stopCalls
                  /\ UNCHANGED <<caches, pendingStarts>>
    ]_vars

\* A started folder A with its cache and its batch was stopped: one stop()
\* call, the batch disposed once, and all three entries of A gone.
C7_Witness ==
  /\ returned.op = "stopForFolder" /\ returned.folder = "A" /\ returned.ret = "ok"
  /\ returned.trace # <<>>
  /\ Len(clientObjs) = 1 /\ clientObjs[1].start = "ok" /\ clientObjs[1].stopCalls = 1
  /\ Len(batches) = 1 /\ batches[1] = 1
  /\ clients["A"] = 0 /\ diagnosticCaches["A"] = 0 /\ watchers["A"] = 0

\* The folder of the top-level call that task t makes in this step.
CalledFolder(t) ==
  IF task'[t] = DoneTask THEN returned'.folder ELSE task'[t].folder

\* Task t makes a top-level call of op in this step.
Calls(t, op) ==
  /\ task[t].pc = "idle" /\ Stepped(t)
  /\ IF task'[t] = DoneTask THEN returned'.op = op ELSE task'[t].op = op

\* C8: a stopForFolder call for a folder with no registered client returns
\* in the calling step without throwing, with nothing invoked or logged, and
\* leaves the clients (and their stop() counts), the caches, the watcher
\* batches and the pending markers unchanged.
C8_StopWithoutClientIsNoOp ==
  [][\A t \in Tasks :
       (Calls(t, "stopForFolder") /\ clients[CalledFolder(t)] = 0)
         => /\ task'[t] = DoneTask
            /\ returned'.ret = "ok" /\ returned'.trace = <<>>
            /\ UNCHANGED mgr
    ]_vars

\* stopForFolder(A) has returned as a no-op while a batch is registered for
\* A, undisposed, and a start of A is pending.
C8_Witness ==
  /\ returned.op = "stopForFolder" /\ returned.folder = "A" /\ returned.trace = <<>>
  /\ clients["A"] = 0 /\ "A" \in pendingStarts
  /\ watchers["A"] # 0 /\ batches[watchers["A"]] = 0

\* C9: a startForFolder call for a folder with a registered client returns
\* in the calling step, with nothing invoked or logged, and leaves the
\* clients (and their start() counts), the caches, the watcher batches and
\* the pending markers unchanged.
C9_StartWithClientIsNoOp ==
  [][\A t \in Tasks :
       (Calls(t, "startForFolder") /\ clients[CalledFolder(t)] # 0)
         => /\ task'[t] = DoneTask
            /\ returned'.ret = "ok" /\ returned'.trace = <<>>
            /\ UNCHANGED mgr
    ]_vars

\* startForFolder(A) has returned as a no-op: A's client is registered and
\* running, with its cache and its batch, and A is not pending.
C9_Witness ==
  /\ returned.op = "startForFolder" /\ returned.folder = "A" /\ returned.trace = <<>>
  /\ clients["A"] # 0 /\ Running(clients["A"]) /\ "A" \notin pendingStarts
  /\ diagnosticCaches["A"] # 0
  /\ watchers["A"] # 0 /\ batches[watchers["A"]] = 0

\* C10: the step in which shouldEnableForFolder resolves with false ends the
\* call: it has invoked only shouldEnableForFolder and one log line (no
\* createClient, no onError), it leaves the clients, the caches and the
\* watcher batches unchanged, and it clears the folder's pending marker.
C10_IneligibleFolderIsSkipped ==
  [][\A t \in Tasks :
       (task[t].pc = "shouldEnable" /\ Stepped(t) /\ task'[t].pc # "createClient")
         => LET key == task[t].folder
            IN /\ task'[t] = DoneTask
               /\ returned'.op = "startForFolder" /\ returned'.folder = key
               /\ returned'.ret = "ok"
               /\ returned'.trace = <<Ev("shouldEnableForFolder", "call", key),
                                      Ev("log", "skipping", key)>>
               /\ key \in pendingStarts
               /\ pendingStarts' = pendingStarts \ {key}
               /\ UNCHANGED <<clients, regOrder, clientObjs, diagnosticCaches,
                              caches, watchers, batches>>
    ]_vars

\* A start of the ineligible folder A has returned: the batch registered for
\* A before is still registered and undisposed, A has no client and no
\* cache, and A is not pending.
C10_Witness ==
  /\ returned.op = "startForFolder" /\ returned.folder = "A"
  /\ HasLog(returned.trace, "skipping")
  /\ watchers["A"] # 0 /\ batches[watchers["A"]] = 0
  /\ clients["A"] = 0 /\ diagnosticCaches["A"] = 0 /\ "A" \notin pendingStarts

\* --------------------------------------------------------------------- C11
\* startForFolder and stopForFolder over every call frame, in an environment
\* where every start and every stop succeeds, and the running clients report
\* diagnostics.
NextCache ==
  \/ \E t \in Tasks :
       \/ CallStartForFolder(t)
       \/ CallStopForFolder(t)
       \/ ShouldEnableTrue(t)
       \/ CreateClientReturnsClient(t)
       \/ RegisterAndStart(t)
       \/ ClientStartResolves(t)
       \/ SyncSendResolves(t)
       \/ AfterStartCompletes(t)
       \/ ClientStopResolves(t)
  \/ HandleDiagnostics

SpecCache == Init /\ [][NextCache]_vars

\* C11: the step in which a start of a folder gets past client.start()
\* installs, as the folder's cache, a Map that did not exist before - so it
\* is a different instance from every cache held before any earlier stop -
\* and that Map is empty, whatever the existing caches hold; the existing
\* caches are not touched; and the rest of that start, up to its "started"
\* line, changes no cache entry and no cache.
C11_RestartGetsFreshCache ==
  [][\A t \in Tasks :
       /\ (task[t].pc = "clientStart" /\ task'[t].pc \in {"syncSend", "afterSync"})
            => LET key == task[t].folder
               IN /\ diagnosticCaches'[key] = Len(caches) + 1
                  /\ Len(caches') = Len(caches) + 1
                  /\ caches'[Len(caches) + 1] = EmptyCache
                  /\ \A i \in 1..Len(caches) : caches'[i] = caches[i]
                  /\ \A k \in Folders \ {key} : diagnosticCaches'[k] = diagnosticCaches[k]
       /\ (task[t].pc \in {"syncSend", "afterSync"} /\ Stepped(t)
             /\ task'[t].pc \in {"syncSend", "afterSync", "done"}
             /\ (task'[t].pc = "done" => HasLog(returned'.trace, "started")))
            => UNCHANGED <<diagnosticCaches, caches>>
    ]_vars

\* Folder A was started, its client reported diagnostics, A was stopped and
\* started again: the second start has just returned, and the cache the
\* manager holds for A is a new, empty Map while an earlier one has an entry.
C11_Witness ==
  /\ returned.op = "startForFolder" /\ returned.folder = "A"
  /\ HasLog(returned.trace, "started")
  /\ Len(clientObjs) = 2
  /\ clientObjs[1].folder = "A" /\ clientObjs[1].stop = "ok"
  /\ clients["A"] = 2
  /\ diagnosticCaches["A"] = Len(caches)
  /\ caches[diagnosticCaches["A"]] = EmptyCache
  /\ \E i \in 1..Len(caches) : caches[i]["a.rb"] # "none"

\* --------------------------------------------------------------------- C12
\* A lookup that ignores the document's folder.
GetClientIgnoringFolder(uri) == clients[WorkspaceFolders[1]]

\* clientManager.ts:52-56 getClient (0: undefined)
GetClient(uri) ==
  IF FolderOf(uri) = "none" THEN 0 ELSE clients[FolderOf(uri)]

\* C12: in every reachable state and for every document, getClient returns
\* nothing when no workspace folder owns the document or when no client is
\* registered for the owning folder, and otherwise the client registered
\* under the owning folder's key, which was created for that folder and is
\* registered under no other key.
C12_RoutingCorrectness ==
  \A uri \in Uris :
    LET c == GetClient(uri)
        key == FolderOf(uri)
    IN /\ key = "none" => c = 0
       /\ (key # "none" /\ clients[key] = 0) => c = 0
       /\ (key # "none" /\ clients[key] # 0) => c = clients[key]
       /\ c # 0 => /\ clientObjs[c].folder = key
                   /\ \A k \in Folders \ {key} : clients[k] # c

\* Both folders have a registered client: the documents of A and of B are
\* routed to different clients and the document outside the workspace to none.
C12_Witness ==
  /\ clients["A"] # 0 /\ clients["B"] # 0
  /\ GetClient("a.rb") = clients["A"] /\ GetClient("a.txt") = clients["A"]
  /\ GetClient("b.rb") = clients["B"]
  /\ GetClient("a.rb") # GetClient("b.rb")
  /\ GetClient("o.rb") = 0

\* --------------------------------------------------------------------- C13
\* A step of a start whose collaborators all succeed.
StartOkStep(t) ==
  \/ ShouldEnableTrue(t)
  \/ CreateClientReturnsClient(t)
  \/ RegisterAndStart(t)
  \/ ClientStartResolves(t)
  \/ SyncSendResolves(t)
  \/ AfterStartCompletes(t)

\* The second workspace folder, whose collaborators always settle; those of
\* the other folder may stay pending forever.
SettlingFolder == WorkspaceFolders[2]

\* Successful starts, where every awaited promise of a start of SettlingFolder
\* settles eventually and nothing is assumed about the other folder.
SpecIndependent ==
  /\ Init
  /\ [][NextStartOk]_vars
  /\ \A t \in Tasks : WF_vars(task[t].folder = SettlingFolder /\ StartOkStep(t))

\* clientManager.ts:68-70  get size
Size == Cardinality({k \in Folders : clients[k] # 0})

\* The start of the folder has completed.
StartCompleted(key) == clients[key] # 0 /\ key \notin pendingStarts

\* C13: starts of two distinct folders do not block or affect each other.
\* A startForFolder call for a folder with no client and no pending start
\* goes on to its eligibility check whatever the state of the other folder;
\* no step of a start changes the client, the cache, the batch or the marker
\* of another folder; a start of folder B in flight completes with B's client
\* registered even if the factory call for A never returns; and when the
\* starts of both folders have completed, size is 2, createClient was called
\* once for each folder, and the folders have distinct caches.
C13_IndependentFolders ==
  /\ [][\A t \in Tasks :
          /\ (Calls(t, "startForFolder")
                /\ clients[CalledFolder(t)] = 0
                /\ CalledFolder(t) \notin pendingStarts)
               => /\ task'[t].pc = "shouldEnable"
                  /\ CalledFolder(t) \in pendingStarts'
          /\ Stepped(t)
               => \A k \in Folders \ {IF task[t].pc = "idle" THEN CalledFolder(t)
                                      ELSE task[t].folder} :
                    /\ clients'[k] = clients[k]
                    /\ diagnosticCaches'[k] = diagnosticCaches[k]
                    /\ watchers'[k] = watchers[k]
                    /\ (k \in pendingStarts') = (k \in pendingStarts)
       ]_vars
  /\ [](\A k1, k2 \in Folders :
          (k1 # k2 /\ StartCompleted(k1) /\ StartCompleted(k2))
            => /\ Size = 2
               /\ clients[k1] # clients[k2]
               /\ Running(clients[k1]) /\ Running(clients[k2])
               /\ FactoryCalls(k1) = 1 /\ FactoryCalls(k2) = 1
               /\ diagnosticCaches[k1] # 0 /\ diagnosticCaches[k2] # 0
               /\ diagnosticCaches[k1] # diagnosticCaches[k2]
               /\ clientObjs[clients[k1]].cache # clientObjs[clients[k2]].cache)
  /\ \A t \in Tasks :
       (task[t].folder = SettlingFolder /\ InFlight(t))
         ~> (task[t] = DoneTask /\ StartCompleted(SettlingFolder))

\* The start of B has returned with B's client registered while the start of
\* A, called first, still waits for its factory.
C13_Witness ==
  /\ task[1].pc = "createClient" /\ task[1].folder = "A"
  /\ returned.op = "startForFolder" /\ returned.folder = "B"
  /\ HasLog(returned.trace, "started")
  /\ StartCompleted("B") /\ Size = 1
  /\ "A" \in pendingStarts

\* --------------------------------------------------------------------- C14
StopAllInFlight == \E t \in Tasks : task[t].op = "stopAll" /\ InFlight(t)

\* startForFolder, stopForFolder and registerWatchers in any interleaving,
\* and stopAll called only when no operation is in flight, with no call made
\* until it has settled.
NextStopAll ==
  \E t \in Tasks :
    \/ /\ ~StopAllInFlight
       /\ \/ CallStartForFolder(t)
          \/ CallStopForFolder(t)
          \/ CallRegisterWatchers(t)
          \/ StartStep(t)
          \/ StopStep(t)
    \/ NoneInFlight /\ CallStopAll(t)
    \/ StopAllStopResolves(t)
    \/ StopAllStopRejects(t)

SpecStopAll == Init /\ [][NextStopAll]_vars

\* The batches that the watcher map holds.
RegisteredBatches == {watchers[k] : k \in Folders} \ {0}

\* C14: a stopAll that runs with no other operation in flight and returns
\* has called stop() exactly once on each client that is registered, and on
\* no other; in the step in which it returns the client map and the cache
\* map become empty, every batch in the watcher map (also one of a folder
\* without a client) is disposed once and removed, and no other batch is
\* disposed.
C14_StopAllStopsEverything ==
  [][\A t \in Tasks :
       (/\ Stepped(t) /\ task'[t] = DoneTask
        /\ returned'.op = "stopAll" /\ returned'.ret = "ok")
         => /\ \A k \in Folders :
                 clients[k] # 0
                   => Cardinality({i \in 1..Len(returned'.trace) :
                                     /\ returned'.trace[i].kind = "stop"
                                     /\ returned'.trace[i].what = clients[k]}) = 1
            /\ Count(returned'.trace, "stop") = Size
            /\ \A c \in 1..Len(clientObjs) :
                 clientObjs'[c].stopCalls >= 1 \/ \A k \in Folders : clients[k] # c
            /\ \A k \in Folders :
                 clients'[k] = 0 /\ diagnosticCaches'[k] = 0 /\ watchers'[k] = 0
            /\ \A b \in 1..Len(batches) :
                 batches'[b] = IF b \in RegisteredBatches THEN batches[b] + 1
                               ELSE batches[b]
    ]_vars

\* stopAll has returned after stopping the clients of A and of B: both
\* clients had one stop() call, both batches are disposed once, and the three
\* maps are empty.
C14_Witness ==
  /\ returned.op = "stopAll" /\ returned.ret = "ok"
  /\ Count(returned.trace, "stop") = 2
  /\ Len(clientObjs) = 2
  /\ clientObjs[1].stopCalls = 1 /\ clientObjs[2].stopCalls = 1
  /\ Len(batches) = 2 /\ batches[1] = 1 /\ batches[2] = 1
  /\ Size = 0
  /\ \A k \in Folders : diagnosticCaches[k] = 0 /\ watchers[k] = 0

\* --------------------------------------------------------------------- C15
RestartAllInFlight == \E t \in Tasks : task[t].op = "restartAll" /\ InFlight(t)

\* startForFolder, stopForFolder and registerWatchers in any interleaving,
\* and restartAll called only when no operation is in flight, with no call
\* made until it has settled.
NextRestart ==
  \E t \in Tasks :
    \/ /\ ~RestartAllInFlight
       /\ \/ CallStartForFolder(t)
          \/ CallStopForFolder(t)
          \/ CallRegisterWatchers(t)
          \/ StartStep(t)
          \/ StopStep(t)
    \/ NoneInFlight /\ CallRestartAll(t)
    \/ /\ task[t].op = "restartAll"
       /\ \/ StartStep(t)
          \/ AllStep(t)

SpecRestart == Init /\ [][NextRestart]_vars

\* C15: one restartAll, run with no other operation in flight.  While it
\* stops clients it calls no createClient and changes no map; the step that
\* ends its stopAll comes when stop() has been called by it once, and has
\* completed, on every registered client, and that step empties the client
\* map and the cache map and disposes and removes every batch of the watcher
\* map; only later steps call createClient, and then nothing of the previous
\* instance is left: every registered client is one on which stop() was never
\* called, the folder being started has no client, no cache and no batch,
\* and the factory builds a new client with a new cache and a new batch.
C15_RestartStopsBeforeStart ==
  [][\A t \in Tasks :
       /\ (task'[t].op = "restartAll" /\ task'[t].pc = "stopAllStop")
            => /\ Count(task'[t].trace, "createClient") = 0
               /\ UNCHANGED <<clients, diagnosticCaches, caches, watchers, batches>>
       /\ (returned'.op = "stopAll" /\ returned'.outer = "restartAll"
             /\ returned'.ret = "ok" /\ Stepped(t))
            => /\ task'[t].pc = "restartAwait"
               /\ Count(returned'.trace, "createClient") = 0
               /\ \A k \in Folders :
                    clients[k] # 0
                      => /\ clientObjs'[clients[k]].stop = "ok"
                         /\ Cardinality({i \in 1..Len(returned'.trace) :
                                           /\ returned'.trace[i].kind = "stop"
                                           /\ returned'.trace[i].what = clients[k]}) = 1
               /\ \A k \in Folders :
                    clients'[k] = 0 /\ diagnosticCaches'[k] = 0 /\ watchers'[k] = 0
               /\ \A b \in 1..Len(batches) :
                    batches'[b] = IF b \in RegisteredBatches THEN batches[b] + 1
                                  ELSE batches[b]
       /\ (task[t].op = "restartAll" /\ task[t].pc = "shouldEnable"
             /\ task'[t].pc = "createClient")
            => /\ clients[task[t].folder] = 0
               /\ diagnosticCaches[task[t].folder] = 0
               /\ watchers[task[t].folder] = 0
               /\ \A k \in Folders :
                    /\ clients[k] # 0 => clientObjs[clients[k]].stopCalls = 0
                    /\ watchers[k] # 0 => batches[watchers[k]] = 0
       /\ (task[t].op = "restartAll" /\ task[t].pc = "createClient"
             /\ task'[t].pc = "createReturned")
            => /\ task'[t].client = Len(clientObjs) + 1
               /\ clientObjs'[task'[t].client].cache = Len(caches) + 1
               /\ diagnosticCaches'[task[t].folder] = Len(caches) + 1
               /\ caches'[Len(caches) + 1] = EmptyCache
               /\ watchers'[task[t].folder] = Len(batches) + 1
               /\ batches'[Len(batches) + 1] = 0
    ]_vars

\* A and B were started, then restartAll stopped both clients, emptied the
\* maps and started A again; it now awaits the factory for B.
C15_Witness ==
  \E t \in Tasks :
    /\ task[t].op = "restartAll" /\ task[t].pc = "createClient"
    /\ task[t].folder = "B"
    /\ Len(clientObjs) = 3
    /\ clientObjs[1].stop = "ok" /\ clientObjs[2].stop = "ok"
    /\ clients["A"] = 3 /\ clients["B"] = 0
    /\ batches[1] = 1 /\ batches[2] = 1

\* --------------------------------------------------------------------- C16
\* C16: under overlapping stop triggers, stop() is called at most once on any
\* client.
C16_StopAtMostOnce ==
  \A c \in 1..Len(clientObjs) : clientObjs[c].stopCalls <= 1

\* --------------------------------------------------------------------- C17
\* C17: whenever no operation of the manager is in flight, every client whose
\* start() completed successfully is still registered or has had stop()
\* called on it.
C17_NoProcessLeak ==
  NoneInFlight
    => \A c \in 1..Len(clientObjs) :
         clientObjs[c].start = "ok"
           => \/ clients[clientObjs[c].folder] = c
              \/ clientObjs[c].stopCalls >= 1

\* --------------------------------------------------------------------- C18
\* C18: in every reachable state, await points included, a client is held
\* in the registry under its folder's key if and only if it is running:
\* its start() completed and stop() was not called on it.
C18_RegisteredIffRunning ==
  \A c \in 1..Len(clientObjs) :
    (clients[clientObjs[c].folder] = c) <=> Running(c)

\* --------------------------------------------------------------------- C19
\* C19: every batch given to registerWatchers is disposed exactly once, no
\* later than when the client of its folder stops or a start of its folder
\* fails: no batch is ever disposed twice; a batch leaves the watcher map
\* only disposed (one that left it undisposed can never be disposed, as only
\* the batches of the map are); the catch block of a failed start leaves no
\* batch registered for the folder; and when stopForFolder returns, also
\* for a folder that was skipped as ineligible, no batch is registered for
\* the folder.
C19_BatchesDisposedExactlyOnce ==
  [][/\ \A b \in 1..Len(batches') : batches'[b] <= 1
     /\ \A k \in Folders :
          (watchers[k] # 0 /\ watchers'[k] # watchers[k])
            => batches'[watchers[k]] = 1
     /\ \A t \in Tasks :
          (task[t].pc # "onError" /\ task'[t].pc = "onError")
            => watchers'[task'[t].folder] = 0
     /\ (returned'.op = "stopForFolder" /\ returned'.ret = "ok")
          => watchers'[returned'.folder] = 0
    ]_vars

\* --------------------------------------------------------------------- C20
\* C20: when the start of a folder fails inside startAll, because
\* createClient threw or client.start() rejected, the failure has been
\* reported once through onError and startAll neither ends nor throws
\* there: it goes on with the loop over the remaining folders.
C20_StartAllIsolatesFailures ==
  (/\ returned.op = "startForFolder" /\ returned.outer = "startAll"
   /\ \/ HasLog(returned.trace, FailedLog("createClient"))
      \/ HasLog(returned.trace, FailedLog("start")))
    => /\ Count(returned.trace, "onError") = 1
       /\ returned.outerRet = "none"
       /\ \E t \in Tasks : task[t].op = "startAll" /\ task[t].pc = "startAllAwait"

\* ---------------------------------------------------------------------- C21
\* C21: the folder-change handler ends only after it has called
\* stopForFolder for every removed folder and startForFolder for every added
\* folder of its event: no failure of one folder's stop or start ends it
\* while folders of the event are left.
C21_HandlerProcessesEveryFolder ==
  [][\A t \in Tasks :
       (task[t].op = "folderChange" /\ task'[t].pc = "done")
         => task[t].idx = Len(task[t].event.removed) + Len(task[t].event.added)]_vars
\* ---------------------------------------------------------------------- C22
\* A client of the key on which stop() was called and has not completed.
StoppingClientsOf(key) ==
  {c \in ClientsOf(key) : clientObjs[c].stop = "pending"}

\* C22: when a handler of the listener invokes createClient for an added
\* folder, no client is registered for the folder and every stop() called
\* on a client of the folder (by a remove event before) has completed.
C22_StopCompletesBeforeFactory ==
  [][\A t \in Tasks :
       (/\ task[t].op = "folderChange" /\ task[t].pc = "shouldEnable"
        /\ task'[t].pc = "createClient")
         => /\ clients[task[t].folder] = 0
            /\ StoppingClientsOf(task[t].folder) = {}]_vars
\* ---------------------------------------------------------------------- C23
\* Events that each remove or add one folder, where every folder is eligible
\* and every collaborator succeeds.
NextRemoveAddOk ==
  \E t \in Tasks :
    \/ CallFolderChangeOne(t)
    \/ FolderChangeNext(t)
    \/ StartOkStep(t)
    \/ ClientStopResolves(t)

SpecRemoveAddOk == Init /\ [][NextRemoveAddOk]_vars

\* The events fired so far that remove or add the key, in firing order.
EventsOf(key) ==
  {t \in Tasks : \/ \E i \in 1..Len(task[t].event.removed) : task[t].event.removed[i] = key
                 \/ \E i \in 1..Len(task[t].event.added) : task[t].event.added[i] = key}

LastEventOf(key) == CHOOSE t \in EventsOf(key) : \A u \in EventsOf(key) : u <= t

\* C23: once every handler of the listener has finished, a folder whose
\* last event removed it has no registered client, and a folder whose last
\* event added it has one (every folder being eligible and every start and
\* stop succeeding).
C23_EventsDecideRegistration ==
  NoneInFlight =>
    \A key \in Folders :
      EventsOf(key) # {} =>
        IF task[LastEventOf(key)].event.removed # <<>>
        THEN clients[key] = 0
        ELSE clients[key] # 0
\* ---------------------------------------------------------------------- C24
\* Task t calls notifyDocumentOpenIfNeeded in this step and goes on to send
\* an open notification.
NotifySends(t) ==
  /\ Calls(t, "notifyDocumentOpenIfNeeded")
  /\ task'[t].pc = "notifySend"

HasReported(c, uri) == caches[HandleDiagnosticsCache(c)][uri] # "none"

\* C25: a notifyDocumentOpenIfNeeded call sends no open notification for a
\* document to a running client that has reported diagnostics for it.
C25_NoNotificationOnceDiagnosed ==
  [][\A t \in Tasks :
       NotifySends(t)
         => ~ (/\ Running(task'[t].client)
               /\ HasReported(task'[t].client, TextDocuments[task'[t].doc].uri))]_vars
\* ---------------------------------------------------------------------- C26
\* The call that returned in the last step is a startForFolder that failed:
\* createClient threw or client.start() rejected.
StartFailed(ret) ==
  /\ ret.op = "startForFolder"
  /\ \/ HasLog(ret.trace, FailedLog("createClient"))
     \/ HasLog(ret.trace, FailedLog("start"))

\* C26: when a failed startForFolder(F) returns, F has no registered client
\* and no pending marker, so that a startForFolder(F) called next passes
\* both guards, sets the marker and goes on to shouldEnableForFolder; from
\* there an eligible start invokes createClient, and when createClient
\* returns a client the start registers it under F.  No step of a
\* startForFolder(F), failing or not, changes the client, the cache, the
\* watcher batch or the pending marker of another folder.
C26_ManagerUsableAfterFailure ==
  [][\A t \in Tasks :
       /\ (Stepped(t) /\ task'[t].pc = "done" /\ StartFailed(returned'))
            => /\ clients'[returned'.folder] = 0
               /\ returned'.folder \notin pendingStarts'
       /\ (StartFailed(returned) /\ Calls(t, "startForFolder")
              /\ CalledFolder(t) = returned.folder)
            => /\ task'[t].pc = "shouldEnable"
               /\ returned.folder \in pendingStarts'
       /\ (task[t].op = "startForFolder" /\ task[t].pc = "shouldEnable" /\ Stepped(t))
            => \/ task'[t].pc = "createClient" /\ HasEvent(task'[t].trace, "createClient")
               \/ task'[t].pc = "done" /\ HasLog(returned'.trace, "skipping")
       /\ (task[t].op = "startForFolder" /\ task[t].pc = "createReturned" /\ Stepped(t))
            => clients'[task[t].folder] = task[t].client
       /\ (task[t].op = "startForFolder" /\ Stepped(t))
            => \A key \in Folders \ {task[t].folder} :
                 /\ clients'[key] = clients[key]
                 /\ diagnosticCaches'[key] = diagnosticCaches[key]
                 /\ watchers'[key] = watchers[key]
                 /\ (key \in pendingStarts') = (key \in pendingStarts)]_vars

\* A start of A has just returned with its client registered and running,
\* after an earlier start of A failed at client.start().
C26_Witness ==
  /\ returned.op = "startForFolder" /\ returned.folder = "A"
  /\ HasLog(returned.trace, "started")
  /\ clients["A"] # 0 /\ Running(clients["A"])
  /\ \E c \in ClientsOf("A") : clientObjs[c].start = "failed"
\* ---------------------------------------------------------------------- C27
\* The post-start work of a start of the key runs in this step.
AfterStartOf(key) ==
  \E t \in Tasks : /\ task[t].pc = "clientStart" /\ task[t].folder = key
                    /\ clientObjs'[task[t].client].start = "ok"

MaxPathLen == 4

\* The characters of a path: the backslash, the slash and two others.
PathChars == {"\\", "/", "a", ":"}

RECURSIVE PathsOfLen(_)
PathsOfLen(n) ==
  IF n = 0 THEN {<<>>}
  ELSE {Append(p, c) : p \in PathsOfLen(n - 1), c \in PathChars}

Paths == UNION {PathsOfLen(n) : n \in 0..MaxPathLen}

\* String.prototype.replace with a pattern that has no g flag: only the
\* first backslash is replaced.
ReplaceFirst(fsPath) ==
  [i \in 1..Len(fsPath) |->
     IF fsPath[i] = "\\" /\ \A j \in 1..(i - 1) : fsPath[j] # "\\"
     THEN "/" ELSE fsPath[i]]

\* clientManager.ts:289-291  fsPath.replace(/\\/g, '/')
normalizePathForGlob(fsPath) ==
  [i \in 1..Len(fsPath) |-> IF fsPath[i] = "\\" THEN "/" ELSE fsPath[i]]

\* normalizePathForGlob is called with a path ...
InitGlob ==
  /\ \E fsPath \in Paths :
       task = [t \in Tasks |->
                 IF t = 1 THEN [IdleTask EXCEPT !.op = "normalizePathForGlob",
                                                !.pc = "called", !.trace = fsPath]
                 ELSE IdleTask]
  /\ returned = NoReturn
  /\ clients = [key \in Folders |-> 0]
  /\ regOrder = <<>>
  /\ clientObjs = <<>>
  /\ diagnosticCaches = [key \in Folders |-> 0]
  /\ caches = <<>>
  /\ watchers = [key \in Folders |-> 0]
  /\ batches = <<>>
  /\ pendingStarts = {}

\* ... and returns: the marker holds the argument and the result.
NormalizePathForGlobReturns ==
  /\ task[1].pc = "called" /\ task[1].op = "normalizePathForGlob"
  /\ task' = [task EXCEPT ![1] = DoneTask]
  /\ returned' = [NoReturn EXCEPT !.op = "normalizePathForGlob",
                                  !.trace = task[1].trace,
                                  !.ret = normalizePathForGlob(task[1].trace)]
  /\ UNCHANGED mgr

\* The result is given to normalizePathForGlob again.
NormalizePathForGlobAgain ==
  /\ returned.op = "normalizePathForGlob"
  /\ returned.trace # returned.ret
  /\ returned' = [returned EXCEPT !.trace = returned.ret,
                                  !.ret = normalizePathForGlob(returned.ret)]
  /\ UNCHANGED <<task, mgr>>

NextGlob ==
  \/ NormalizePathForGlobReturns
  \/ NormalizePathForGlobAgain

SpecGlob == InitGlob /\ [][NextGlob]_vars

\* C28: normalizePathForGlob(p) has the length of p, a slash wherever p has
\* a backslash and p's character everywhere else; so it holds no backslash,
\* equals p when p holds none, and normalising it again gives it back.
C28_NormalizePathForGlob ==
  returned.op = "normalizePathForGlob"
    => LET p == returned.trace
           q == returned.ret
       IN /\ Len(q) = Len(p)
          /\ \A i \in 1..Len(p) : q[i] = (IF p[i] = "\\" THEN "/" ELSE p[i])
          /\ \A i \in 1..Len(q) : q[i] # "\\"
          /\ (\A i \in 1..Len(p) : p[i] # "\\") => q = p
          /\ normalizePathForGlob(q) = q

\* A path of mixed separators with two backslashes has been normalised.
C28_Witness ==
  /\ returned.op = "normalizePathForGlob"
  /\ returned.trace = <<"a", "\\", "/", "\\">>
  /\ returned.ret = <<"a", "/", "/", "/">>
\* -------------------------------------------------- eligibility and command
\* standardRuby.mode: the five values shouldEnableForFolder knows, and one
\* it does not.
Modes ==
  {"enableUnconditionally", "enableViaGemfileOrMissingGemfile", "enableViaGemfile",
   "onlyRunGlobally", "disable", "invalid"}

\* How a promiseExec of a Bundler command ends: it resolves ("ok"), rejects
\* with an ExecError whose stderr starts with 'Could not locate Gemfile'
\* ("noGemfile"), is "Could not find gem 'standard'." ("noGem") or is
\* anything else ("failed"), or rejects with another error ("thrown").
ExecOutcomes == {"ok", "noGemfile", "noGem", "failed", "thrown"}

\* How `${command} -v` ends: a version that satisfies requiredGemVersion, one
\* that does not, or a rejection.
VersionOutcomes == {"supported", "unsupported", "failed"}

\* standardRuby.commandPath as the pieces variablePattern cuts it into:
\* empty (the default; an unset value is read as empty), a plain path, paths
\* with variables, and a path with a variable resolveCommandPath has no case
\* for.
CommandPaths ==
  {<<>>, <<"/bin/standardrb">>, <<"${cwd}", "/bin/standardrb">>,
   <<"${userHome}", "${pathSeparator}", "standardrb">>,
   <<"${workspaceFolder}", "/bin/standardrb">>}

\* The settings and the outcomes of the probes of one start of a folder.
Configs ==
  [mode : Modes, commandPath : CommandPaths, list : ExecOutcomes,
   show : ExecOutcomes, version : VersionOutcomes]

\* extension.ts:141-156, on the outcome of `bundle list --name-only`
isValidBundlerProject(list) ==
  CASE list = "ok" -> "valid"
    [] list = "noGemfile" -> "missing"
    [] OTHER -> "errored"

\* extension.ts:158-173, on the outcome of `bundle show standard`
isInBundle(show) ==
  CASE show = "ok" -> "included"
    [] show \in {"noGemfile", "noGem"} -> "excluded"
    [] OTHER -> "errored"

\* The folder enabled unless the bundle excludes standard.
ShouldEnableUnlessExcluded(show) == isInBundle(show) # "excluded"

\* extension.ts:175-181
shouldEnableIfBundleIncludesStandard(show) == isInBundle(show) = "included"

\* extension.ts:182-204
shouldEnableForFolder(mode, list, show) ==
  CASE mode = "enableUnconditionally" -> TRUE
    [] mode = "enableViaGemfileOrMissingGemfile" ->
         IF isValidBundlerProject(list) = "valid"
         THEN shouldEnableIfBundleIncludesStandard(show)
         ELSE isValidBundlerProject(list) = "missing"
    [] mode = "enableViaGemfile" -> shouldEnableIfBundleIncludesStandard(show)
    [] mode = "onlyRunGlobally" -> TRUE
    [] mode = "disable" -> FALSE
    [] OTHER -> FALSE

\* extension.ts:206-209
hasCustomizedCommandPath(commandPath) == Len(commandPath) > 0

\* The pieces of a commandPath that are variables, and those with a case in
\* the switch of resolveCommandPath.
IsVariable(piece) == piece \in {"${cwd}", "${pathSeparator}", "${userHome}", "${workspaceFolder}"}

KnownVariable(piece) == piece \in {"${cwd}", "${pathSeparator}", "${userHome}"}

\* extension.ts:217-227: what a variable is replaced by.
ResolveVariable(piece) ==
  CASE piece = "${cwd}" -> "fsPath"
    [] piece = "${pathSeparator}" -> "sep"
    [] piece = "${userHome}" -> "homedir"
    [] OTHER -> piece

\* extension.ts:211-230: the loop replaces the first match of variablePattern
\* until there is none; a match with no case in the switch is not replaced
\* and stays the first match, so the loop never ends (<<"diverges">>).
resolveCommandPath(commandPath) ==
  IF \E i \in 1..Len(commandPath) :
       IsVariable(commandPath[i]) /\ ~KnownVariable(commandPath[i])
  THEN <<"diverges">>
  ELSE [i \in 1..Len(commandPath) |-> ResolveVariable(commandPath[i])]

\* extension.ts:232-240
getCommand(cfg) ==
  IF hasCustomizedCommandPath(cfg.commandPath) THEN resolveCommandPath(cfg.commandPath)
  ELSE IF cfg.mode # "onlyRunGlobally" /\ isInBundle(cfg.show) = "included"
  THEN <<"bundle exec standardrb">>
  ELSE <<"standardrb">>

\* extension.ts:243-260
supportedVersionOfStandard(version) == version # "unsupported"

\* extension.ts:262-276, 323-335, clientManager.ts:126-132: the command of
\* the server a start of the folder launches (<<"skipped">>: the folder is
\* not eligible; <<"null">>: createClient returns null; <<"diverges">>: it
\* never returns).
Launched(cfg) ==
  IF ~shouldEnableForFolder(cfg.mode, cfg.list, cfg.show) THEN <<"skipped">>
  ELSE IF getCommand(cfg) = <<"diverges">> THEN <<"diverges">>
  ELSE IF supportedVersionOfStandard(cfg.version) THEN getCommand(cfg)
  ELSE <<"null">>

\* A start of a folder under some settings, with some outcome of each probe.
InitPolicy ==
  /\ \E cfg \in Configs :
       task = [t \in Tasks |->
                 IF t = 1 THEN [IdleTask EXCEPT !.op = "startForFolder",
                                                !.pc = "shouldEnableForFolder",
                                                !.trace = cfg]
                 ELSE IdleTask]
  /\ returned = NoReturn
  /\ clients = [key \in Folders |-> 0]
  /\ regOrder = <<>>
  /\ clientObjs = <<>>
  /\ diagnosticCaches = [key \in Folders |-> 0]
  /\ caches = <<>>
  /\ watchers = [key \in Folders |-> 0]
  /\ batches = <<>>
  /\ pendingStarts = {}

\* shouldEnableForFolder settles: the marker holds the settings and the
\* result.
ShouldEnableForFolderReturns ==
  /\ task[1].pc = "shouldEnableForFolder"
  /\ LET cfg == task[1].trace
     IN /\ task' = [task EXCEPT ![1].pc = "createLanguageClient"]
        /\ returned' = [NoReturn EXCEPT
             !.op = "shouldEnableForFolder", !.trace = cfg,
             !.ret = IF shouldEnableForFolder(cfg.mode, cfg.list, cfg.show)
                     THEN "true" ELSE "false"]
  /\ UNCHANGED mgr

\* The start is over: the marker holds the settings and the command of the
\* server launched, if any.
CreateLanguageClientReturns ==
  /\ task[1].pc = "createLanguageClient"
  /\ task' = [task EXCEPT ![1] = DoneTask]
  /\ returned' = [NoReturn EXCEPT !.op = "createLanguageClient",
                                  !.trace = task[1].trace,
                                  !.ret = Launched(task[1].trace)]
  /\ UNCHANGED mgr

NextPolicy ==
  \/ ShouldEnableForFolderReturns
  \/ CreateLanguageClientReturns

SpecPolicy == InitPolicy /\ [][NextPolicy]_vars

C30_CommandPathOverridesSearch ==
  (/\ returned.op = "createLanguageClient"
   /\ hasCustomizedCommandPath(returned.trace.commandPath)
   /\ returned.trace.mode # "invalid"
   /\ returned.trace.version # "unsupported")
    => IF returned.trace.mode = "disable"
       THEN returned.ret = <<"skipped">>
       ELSE /\ returned.ret \notin {<<"skipped">>, <<"null">>, <<"diverges">>}
            /\ returned.ret = resolveCommandPath(returned.trace.commandPath)
\* ---------------------------------------------------------------------- C31
\* The startForFolder calls of the key that passed both guards and have not
\* returned, whoever made them.
StartsInFlight(key) ==
  {t \in Tasks : /\ task[t].folder = key
                 /\ task[t].pc \in {"shouldEnable", "createClient", "createReturned",
                                    "clientStart", "syncSend", "afterSync", "onError"}}

\* C31: in every state a key is in the pending set if and only if exactly
\* one startForFolder call of the key that passed the guards has not yet
\* returned; there are never two such calls.
C31_PendingIffOneStartInFlight ==
  \A key \in Folders :
    /\ Cardinality(StartsInFlight(key)) <= 1
    /\ (key \in pendingStarts) = (Cardinality(StartsInFlight(key)) = 1)

\* A start of A is awaiting onError after its createClient threw, the
\* marker of A still set, and a second startForFolder(A) has just returned
\* at the pending guard.
C31_Witness ==
  /\ "A" \in pendingStarts
  /\ \E t \in Tasks : t \in StartsInFlight("A") /\ task[t].pc = "onError"
  /\ returned.op = "startForFolder" /\ returned.folder = "A" /\ returned.trace = <<>>
\* ---------------------------------------------------------------------- C32
\* The positions of the trace at which an open notification for the uri is
\* sent.
SendsOf(tr, uri) ==
  {j \in 1..Len(tr) : tr[j].kind = "sendNotification" /\ tr[j].what = uri}

\* C32: a startForFolder(F) sends an open notification only once start()
\* of F's new client has completed and F's cache has been replaced by a new
\* empty one, and sends it to that client; when the start returns after its
\* "started" line it has sent exactly one notification for each open
\* document of F with a supported language, none for any other document,
\* and has called onStatusUpdate once, after the last notification.
C32_SyncOpenDocumentsAfterStart ==
  [][\A t \in Tasks :
       /\ (Stepped(t) /\ task'[t].pc = "syncSend")
            => LET c == task'[t].client
                   key == task'[t].folder
               IN /\ clientObjs'[c].start = "ok" /\ clientObjs'[c].folder = key
                  /\ diagnosticCaches'[key] # clientObjs'[c].cache
                  /\ caches'[diagnosticCaches'[key]] = EmptyCache
                  /\ task'[t].trace[Len(task'[t].trace)]
                       = Ev("sendNotification", TextDocuments[task'[t].doc].uri, key)
       /\ (Stepped(t) /\ task'[t].pc = "done" /\ returned'.op = "startForFolder"
              /\ HasLog(returned'.trace, "started"))
            => LET tr == returned'.trace
               IN /\ \A i \in 1..Len(TextDocuments) :
                       Cardinality(SendsOf(tr, TextDocuments[i].uri))
                         = (IF /\ TextDocuments[i].folder = returned'.folder
                               /\ supportedLanguage(TextDocuments[i].languageId)
                            THEN 1 ELSE 0)
                  /\ Count(tr, "onStatusUpdate") = 1
                  /\ \A j, k \in 1..Len(tr) :
                       (tr[j].kind = "sendNotification" /\ tr[k].kind = "onStatusUpdate")
                         => j < k]_vars

\* A start of A has returned after its "started" line, having sent the open
\* notification for a.rb, while a start of B is awaiting its own.
C32_Witness ==
  /\ returned.op = "startForFolder" /\ returned.folder = "A"
  /\ HasLog(returned.trace, "started")
  /\ SendsOf(returned.trace, "a.rb") # {}
  /\ \E t \in Tasks : task[t].pc = "syncSend" /\ task[t].folder = "B"
\* ---------------------------------------------------------------------- C33
\* startForFolder and stopForFolder calls overlapping in any way, where
\* every folder is eligible and every collaborator succeeds.
NextFolderOk ==
  \E t \in Tasks :
    \/ CallStartForFolder(t)
    \/ CallStopForFolder(t)
    \/ StartOkStep(t)
    \/ ClientStopResolves(t)

SpecFolderOk == Init /\ [][NextFolderOk]_vars

\* What calls of startForFolder and stopForFolder of the key that run one
\* after the other, each succeeding, leave behind: a registered running
\* client with its cache and watcher batch and no other started client, or
\* nothing at all.
SequentialOutcome(key) ==
  \/ /\ clients[key] # 0
     /\ RunningClientsOf(key) = {clients[key]}
     /\ diagnosticCaches[key] # 0
     /\ watchers[key] # 0
  \/ /\ clients[key] = 0
     /\ RunningClientsOf(key) = {}
     /\ diagnosticCaches[key] = 0
     /\ watchers[key] = 0

\* C33: when all the overlapping startForFolder and stopForFolder calls
\* have returned, every folder is in a state that the same calls run one
\* after the other can leave it in.
C33_PerFolderSerialized ==
  NoneInFlight => \A key \in Folders : SequentialOutcome(key)
\* ---------------------------------------------------------------------- C34
\* C34: in every state where no operation is in flight, the cache map has
\* an entry for a folder only if a client is registered for the folder.
C34_CacheOnlyWithClient ==
  NoneInFlight =>
    \A key \in Folders : diagnosticCaches[key] # 0 => clients[key] # 0
\* ---------------------------------------------------------------------- C35
\* C35: no watcher batch is disposed more than once, and a batch that has
\* been disposed is under no key of the watcher map.
C35_NoWatcherDisposedTwice ==
  \A b \in 1..Len(batches) :
    /\ batches[b] <= 1
    /\ batches[b] = 1 => \A key \in Folders : watchers[key] # b

\* A stopForFolder has just returned after disposing the batch of its
\* folder, while another batch is registered and not disposed.
C35_Witness ==
  /\ returned.op = "stopForFolder" /\ HasEvent(returned.trace, "stop")
  /\ \E b \in 1..Len(batches) : batches[b] = 1
  /\ \E key \in Folders : watchers[key] # 0 /\ batches[watchers[key]] = 0

\* ------------------------------------------- displayError (extension.ts)
\* The steps of a start between its pending marker and its catch block.
StartBody(t) ==
  \/ ShouldEnableTrue(t)
  \/ ShouldEnableFalse(t)
  \/ CreateClientReturnsClient(t)
  \/ CreateClientReturnsNull(t)
  \/ CreateClientThrows(t)
  \/ RegisterAndStart(t)
  \/ ClientStartResolves(t)
  \/ ClientStartRejects(t)
  \/ SyncSendResolves(t)
  \/ SyncSendRejects(t)
  \/ AfterStartCompletes(t)
  \/ StatusUpdateThrows(t)

\* extension.ts:447-449, 338-341: the onError of the failed start of frame t
\* awaits displayError, which awaits window.showErrorMessage; the user chooses
\* 'Restart', and displayError calls `await clientManager?.restartAll()` on
\* frame u while startForFolder is still suspended in its catch block.
DisplayErrorRestart(t, u) ==
  /\ task[t].pc = "onError"
  /\ CallRestartAll(u)

\* extension.ts:341-342: the restartAll of frame u has returned to
\* displayError, which returns to onError, which resolves.
DisplayErrorReturns(t, u) ==
  /\ task[u].pc = "done"
  /\ OnErrorResolves(t)

\* extension.ts:338, 349-350: the notification is dismissed, no action runs.
DisplayErrorDismissed(t, u) ==
  /\ task[u].pc = "idle"
  /\ OnErrorResolves(t)

\* A startForFolder or a startAll on frame 1; when a start of it fails, the
\* user dismisses the error notification or chooses 'Restart', which runs
\* restartAll on frame 2.  Every stop() resolves, and a notification shown by
\* a failure inside the restartAll is dismissed.
NextDisplayError ==
  \/ CallStartForFolder(1)
  \/ CallStartAll(1)
  \/ StartAllNext(1)
  \/ StartBody(1)
  \/ DisplayErrorRestart(1, 2)
  \/ DisplayErrorDismissed(1, 2)
  \/ DisplayErrorReturns(1, 2)
  \/ StopAllStopResolves(2)
  \/ RestartStartAll(2)
  \/ StartAllNext(2)
  \/ StartBody(2)
  \/ OnErrorResolves(2)

SpecDisplayError == Init /\ [][NextDisplayError]_vars

\* C36: when the start of a folder fails and the user chooses 'Restart' in the
\* error notification, the restartAll this runs makes a new start attempt for
\* that folder: its startForFolder consults shouldEnableForFolder, and calls
\* createClient again unless the folder is no longer eligible.
C36_RestartStartsFailedFolderAgain ==
  (/\ task[1].pc = "onError"
   /\ returned.op = "startForFolder"
   /\ returned.outer = "restartAll"
   /\ returned.folder = task[1].folder)
    => /\ HasEvent(returned.trace, "shouldEnableForFolder")
       /\ HasLog(returned.trace, "skipping") \/ HasEvent(returned.trace, "createClient")


\* ---------------------------------------------------------------------- C37
\* Task t sends an open notification in this step: from
\* notifyDocumentOpenIfNeeded, or from the post-start sync.
SendsOpen(t) ==
  /\ Stepped(t)
  /\ task'[t].pc \in {"notifySend", "syncSend"}

\* C37: every open notification, sent by notifyDocumentOpenIfNeeded or by the
\* post-start sync, goes to a client whose start() has completed and on which
\* stop() has not been called.
C37_SendsOnlyToRunningClient ==
  [][\A t \in Tasks :
       SendsOpen(t)
         => /\ clientObjs'[task'[t].client].start = "ok"
            /\ clientObjs'[task'[t].client].stopCalls = 0]_vars


\* ---------------------------------------------------------------------- C38
\* A startForFolder or a startAll on frame 1, and a restartAll called on
\* frame 2 while it is in flight, in an environment where every folder is
\* eligible, the factory returns a client, and every start(), send and
\* stop() succeeds.
NextRestartDuringStart ==
  \/ CallStartForFolder(1)
  \/ CallStartAll(1)
  \/ StartAllNext(1)
  \/ StartOkStep(1)
  \/ InFlight(1) /\ CallRestartAll(2)
  \/ StopAllStopResolves(2)
  \/ RestartStartAll(2)
  \/ StartAllNext(2)
  \/ StartOkStep(2)

SpecRestartDuringStart == Init /\ [][NextRestartDuringStart]_vars

\* C38: a restartAll ran while a startAll or a startForFolder was in flight;
\* once both have finished, every workspace folder has exactly one client,
\* registered and running, and no started client is outside the registry.
C38_RestartDuringStartConverges ==
  (task[1].pc = "done" /\ task[2].pc = "done")
    => \A key \in Folders :
         /\ clients[key] # 0
         /\ RunningClientsOf(key) = {clients[key]}


\* ------------------------------------------- resolveCommandPath, the loop
\* The most pieces of a commandPath.
MaxPieces == 3

\* A commandPath is a sequence of pieces: a placeholder that variablePattern
\* matches, or a run of text without one.
ResolvePieces == {"text", "${cwd}", "${pathSeparator}", "${userHome}", "${workspaceFolder}"}

\* String concatenation: adjacent runs of text are one run of text.
RECURSIVE Join(_)
Join(p) ==
  IF Len(p) < 2 THEN p
  ELSE IF ~IsVariable(p[1]) /\ ~IsVariable(p[2])
  THEN Join(<<"text">> \o SubSeq(p, 3, Len(p)))
  ELSE <<p[1]>> \o Join(Tail(p))

ResolvePaths ==
  {p \in UNION {[1..n -> ResolvePieces] : n \in 0..MaxPieces} : Join(p) = p}

\* folder.uri.fsPath and homedir(): a path, or a path with a directory whose
\* name reads as a placeholder.
Substitutes == {<<"text">>, <<"text", "${cwd}">>, <<"text", "${userHome}">>}

ResolveInputs == [commandPath : ResolvePaths, fsPath : Substitutes, homedir : Substitutes]

\* extension.ts:215  variablePattern.exec(customCommandPath): the pattern has
\* no g flag, so every call searches from the start and yields the first
\* placeholder (0: null).
FirstMatch(p) ==
  IF \E i \in 1..Len(p) : IsVariable(p[i])
  THEN CHOOSE i \in 1..Len(p) : IsVariable(p[i]) /\ \A j \in 1..(i - 1) : ~IsVariable(p[j])
  ELSE 0

\* extension.ts:216-226: the switch on match[1]; a name with no case is not
\* replaced.
Replacement(piece, in) ==
  CASE piece = "${cwd}" -> in.fsPath
    [] piece = "${pathSeparator}" -> <<"sep">>
    [] piece = "${userHome}" -> in.homedir
    [] OTHER -> <<piece>>

\* customCommandPath.replace(match[0], ...): match[0] is the first
\* placeholder, and its first occurrence is the match itself.
ReplaceMatch(p, i, in) ==
  Join(SubSeq(p, 1, i - 1) \o Replacement(p[i], in) \o SubSeq(p, i + 1, Len(p)))

\* A call of resolveCommandPath at the head of its loop, under some setting
\* and some folder and home directory.
InitResolve ==
  /\ \E in \in ResolveInputs :
       task = [t \in Tasks |->
                 IF t = 1 THEN [IdleTask EXCEPT !.op = "resolveCommandPath",
                                                !.pc = "variablePattern.exec",
                                                !.trace = in]
                 ELSE IdleTask]
  /\ returned = NoReturn
  /\ clients = [key \in Folders |-> 0]
  /\ regOrder = <<>>
  /\ clientObjs = <<>>
  /\ diagnosticCaches = [key \in Folders |-> 0]
  /\ caches = <<>>
  /\ watchers = [key \in Folders |-> 0]
  /\ batches = <<>>
  /\ pendingStarts = {}

\* extension.ts:215: the loop test, match != null: the body runs on the match.
ResolveExec ==
  /\ task[1].pc = "variablePattern.exec"
  /\ FirstMatch(task[1].trace.commandPath) # 0
  /\ task' = [task EXCEPT ![1].pc = "switch",
                          ![1].idx = FirstMatch(task[1].trace.commandPath)]
  /\ returned' = NoReturn
  /\ UNCHANGED mgr

\* extension.ts:216-227: the loop body, and back to the loop test.
ResolveSwitch ==
  /\ task[1].pc = "switch"
  /\ LET in == task[1].trace
     IN task' = [task EXCEPT ![1].pc = "variablePattern.exec",
                             ![1].idx = 0,
                             ![1].trace.commandPath =
                                ReplaceMatch(in.commandPath, task[1].idx, in)]
  /\ returned' = NoReturn
  /\ UNCHANGED mgr

\* extension.ts:215, 229: match == null, the loop ends and the path is
\* returned.
ResolveCommandPathReturns ==
  /\ task[1].pc = "variablePattern.exec"
  /\ FirstMatch(task[1].trace.commandPath) = 0
  /\ task' = [task EXCEPT ![1] = DoneTask]
  /\ returned' = [NoReturn EXCEPT !.op = "resolveCommandPath",
                                  !.ret = task[1].trace.commandPath]
  /\ UNCHANGED mgr

NextResolve ==
  \/ ResolveExec
  \/ ResolveSwitch
  \/ ResolveCommandPathReturns

\* The loop runs on: no step of it is put off forever.
SpecResolve == InitResolve /\ [][NextResolve]_vars /\ WF_vars(NextResolve)

\* ---------------------------------------------------------------------- C39
\* C39: resolveCommandPath terminates for every value of
\* standardRuby.commandPath: every call returns.
C39_ResolveCommandPathTerminates ==
  <>(task[1].pc = "done")

====
